---- MODULE Spec2Model ----
\* Model of cli/cmd/lib_manager.go: runManager (the managed run controller),
\* the ctrl+c goroutine it starts, and the operating system delivering
\* interrupt / termination signals to the process.
EXTENDS Integers, Sequences, FiniteSets, TLC

VARIABLES
    pc,            \* position of the controller inside runManager
    cfg,           \* *containerConfig: [Env, Cmd0]
    copyToPaths,   \* number of copy-in directives passed to runManager
    copyFromPaths, \* number of copy-out directives passed to runManager
    idx,           \* index of the current directive in the running range loop
    defers,        \* runManager's stack of deferred calls (top is the head)
    notified,      \* signal.Notify(c, os.Interrupt, SIGTERM) has been called
    c,             \* number of signals buffered in the channel c (capacity 1)
    caughtCtrlC,   \* the captured boolean written by the goroutine
    wpc,           \* position of the ctrl+c goroutine
    proc,          \* the process: "alive", "exited" (exit.Error), "killed" (default signal action)
    exitErr,       \* the error the process exited with, if it exited through exit.Error
    calls,         \* history: the engine calls issued so far, in order
    pullErr,       \* history: the error text PullImage failed with
    info,          \* result of ContainerInspect: <<>> or <<[Running, ExitCode]>>
    hung,          \* the attached stream never reaches end-of-stream
    outputBuffer,  \* the bytes the tee captured from the attached stream
    ret,           \* the triple of the executing return statement
    result,        \* what the caller received: <<>> or <<triple>>
    sigs,          \* history: the phase of the run at which each signal was delivered
    caller,        \* the invocation variant that calls runManager: [variant, runs, ret, configAt]
    queryTags,     \* hasAllEC2Tags: the tags asked for
    allResourceTags \* hasAllEC2Tags: the tags of the resource

vars == <<pc, cfg, copyToPaths, copyFromPaths, idx, defers, notified, c, caughtCtrlC,
          wpc, proc, exitErr, calls, pullErr, info, hung, outputBuffer, ret, result, sigs,
          caller, queryTags, allResourceTags>>

\* ---------------------------------------------------------------- bounds
MaxCopyTo == 2
MaxCopyFrom == 2
MaxErrLen == 4
MaxExitCode == 1
MaxSignals == 2
MaxStreamLen == 4
MaxTags == 2

\* ---------------------------------------------------------------- values
Nil == <<>>
Some(x) == <<x>>

ErrAlphabet == {"a", "u", "t", "h"}

RECURSIVE SeqsUpTo(_, _)
SeqsUpTo(S, n) ==
    IF n = 0 THEN {<<>>}
    ELSE LET shorter == SeqsUpTo(S, n - 1)
         IN shorter \cup {Append(s, e) : s \in {t \in shorter : Len(t) = n - 1}, e \in S}

ErrTexts == SeqsUpTo(ErrAlphabet, MaxErrLen)
\* "hello\r\nworld\r\n", each word taken as one unit of text
Hello == <<"hello", "CR", "LF", "world", "CR", "LF">>

\* the byte streams an attached container delivers in this model: nothing,
\* two lines ending in "\r\n", and a "\r" and a "\n" that are not adjacent
Streams == {<<>>, Hello, <<"CR", "x", "LF">>}

\* strings.HasPrefix / strings.Contains on texts represented as sequences
HasPrefix(s, p) == Len(s) >= Len(p) /\ SubSeq(s, 1, Len(p)) = p

Contains(s, sub) ==
    \E k \in 0..(Len(s) - Len(sub)) : SubSeq(s, k + 1, k + Len(sub)) = sub

\* strings.ReplaceAll(s, old, new): left to right, non-overlapping
RECURSIVE ReplaceAll(_, _, _)
ReplaceAll(s, old, new) ==
    IF s = <<>> THEN <<>>
    ELSE IF HasPrefix(s, old) THEN new \o ReplaceAll(SubSeq(s, Len(old) + 1, Len(s)), old, new)
    ELSE <<Head(s)>> \o ReplaceAll(Tail(s), old, new)

\* an error value: its text and how it was wrapped on the way out
Err(text) == [text |-> text, wrap |-> "none"]

\* errors.Append(err, str): the same error with str appended to its text
ErrorsAppend(e, str) == [e EXCEPT !.text = e.text \o str]

\* the guidance of line 69, as two words of text
Remediation == <<"docker login", "docker pull">>

\* docker.WrapDockerError(err): an engine-protocol error that keeps the cause
WrapDockerError(e) == [e EXCEPT !.wrap = "docker"]

\* errors.WithStack(err): the same error with a stack attached
WithStack(e) == [e EXCEPT !.wrap = "stack"]

\* ErrorDockerCtrlC(): the distinguished cancellation error
ErrorDockerCtrlC == Err(<<"ctrl+c">>)

Call(op, n, by, ok) == [op |-> op, n |-> n, by |-> by, ok |-> ok]

ReturnErrKeepsOutput(e) == [output |-> outputBuffer, exitCode |-> Nil, err |-> Some(e)]

\* return "", nil, err
ReturnErr(e) == [output |-> <<>>, exitCode |-> Nil, err |-> Some(e)]

Alive == proc = "alive"

\* the text strings.Contains looks for at line 68
Auth == <<"a", "u", "t", "h">>

\* output := strings.ReplaceAll(outputBuffer.String(), "\r\n", "\n")
Normalize(s) == ReplaceAll(s, <<"CR", "LF">>, <<"LF">>)

\* the part of the run the controller is in: before create has succeeded, from
\* the success of create up to the stream copy, during the stream copy, the
\* teardown after it, and after runManager has returned
Phase ==
    CASE pc \in {"marshal", "write", "build", "augment", "client", "pull", "create"} -> "pre"
      [] pc \in {"defer", "notify", "go", "copyTo", "start", "attach"} -> "window"
      [] pc = "copy" -> "stream"
      [] pc \in {"returned", "variantReturned"} -> "returned"
      [] OTHER -> "post"

\* ---------------------------------------------------------------- initial state
\* the state in which nothing of a run has happened yet
InitRun ==
    /\ queryTags = <<>> /\ allResourceTags = <<>>
    /\ copyToPaths \in 0..MaxCopyTo
    /\ copyFromPaths \in 0..MaxCopyFrom
    /\ idx = 0
    /\ defers = <<>>
    /\ notified = FALSE
    /\ c = 0
    /\ caughtCtrlC = FALSE
    /\ wpc = "none"
    /\ proc = "alive"
    /\ exitErr = Nil
    /\ calls = <<>>
    /\ pullErr = Nil
    /\ info = Nil
    /\ hung = FALSE
    /\ outputBuffer = <<>>
    /\ ret = Nil
    /\ result = Nil
    /\ sigs = <<>>

\* runManager has just been called with a container configuration
Init ==
    /\ InitRun
    /\ pc = "augment"
    /\ cfg = [Env |-> <<"AWS_ACCESS_KEY_ID">>, Cmd0 |-> <<"entrypoint">>]
    /\ caller = [variant |-> "none", runs |-> 1, ret |-> Nil, configAt |-> 0]

\* runManagerWithClusterConfig or runManagerAccessCommand has just been called
InitVariants ==
    /\ InitRun
    /\ caller \in {[variant |-> v, runs |-> 0, ret |-> Nil, configAt |-> 0] :
                      v \in {"clusterConfig", "accessCommand"}}
    /\ pc = IF caller.variant = "clusterConfig" THEN "marshal" ELSE "build"
    /\ cfg = [Env |-> <<>>, Cmd0 |-> <<>>]
    \* the directive the variant appends counts among the MaxCopyTo
    /\ caller.variant = "clusterConfig" => copyToPaths < MaxCopyTo

\* ---------------------------------------------------------------- controller
\* a return statement with triple r: the deferred calls run next
ReturnWith(r) ==
    /\ ret' = Some(r)
    /\ pc' = "unwind"

\* lines 56-59
AugmentConfig ==
    /\ Alive /\ pc = "augment"
    /\ cfg' = [Env |-> Append(cfg.Env, "CORTEX_CLI_VERSION"),
               Cmd0 |-> <<"sleep 0.1 && /root/check_cortex_version.sh && ">> \o cfg.Cmd0]
    /\ pc' = "client"
    /\ UNCHANGED <<queryTags, allResourceTags, caller, copyToPaths, copyFromPaths, idx, defers, notified, c, caughtCtrlC, wpc,
                   proc, exitErr, calls, pullErr, info, hung, outputBuffer, ret, result, sigs>>

\* lines 61-64
GetDockerClient ==
    /\ Alive /\ pc = "client"
    /\ \/ pc' = "pull" /\ ret' = ret
       \/ ReturnWith(ReturnErr(Err(<<"client">>)))
    /\ UNCHANGED <<queryTags, allResourceTags, caller, cfg, copyToPaths, copyFromPaths, idx, defers, notified, c, caughtCtrlC, wpc,
                   proc, exitErr, calls, pullErr, info, hung, outputBuffer, result, sigs>>

\* line 68 without its condition: the guidance is appended to every pull error
PullErrorAlwaysAppends(e) == ErrorsAppend(Err(e), Remediation)

\* the error lines 67-71 return for a pull that failed with text e
PullError(e) ==
    IF Contains(e, Auth) THEN ErrorsAppend(Err(e), Remediation) ELSE Err(e)

\* lines 66-76
PullImage ==
    /\ Alive /\ pc = "pull"
    /\ \/ /\ calls' = Append(calls, Call("pull", 0, "ctl", TRUE))
          /\ pc' = "create"
          /\ UNCHANGED <<ret, pullErr>>
       \/ \E e \in ErrTexts :
             /\ calls' = Append(calls, Call("pull", 0, "ctl", FALSE))
             /\ pullErr' = Some(e)
             /\ ReturnWith(ReturnErr(PullError(e)))
    /\ UNCHANGED <<queryTags, allResourceTags, caller, cfg, copyToPaths, copyFromPaths, idx, defers, notified, c, caughtCtrlC, wpc,
                   proc, exitErr, info, hung, outputBuffer, result, sigs>>

\* lines 78-90 with the defer moved before the error check
ContainerCreateDefersFirst ==
    /\ Alive /\ pc = "create"
    /\ defers' = <<"removeContainer">> \o defers
    /\ \/ /\ calls' = Append(calls, Call("create", 0, "ctl", TRUE))
          /\ pc' = "notify"
          /\ ret' = ret
       \/ /\ calls' = Append(calls, Call("create", 0, "ctl", FALSE))
          /\ ReturnWith(ReturnErr(WrapDockerError(Err(<<"create">>))))
    /\ UNCHANGED <<queryTags, allResourceTags, caller, cfg, copyToPaths, copyFromPaths, idx, notified, c, caughtCtrlC, wpc,
                   proc, exitErr, pullErr, info, hung, outputBuffer, result, sigs>>

\* lines 78-81
ContainerCreate ==
    /\ Alive /\ pc = "create"
    /\ \/ /\ calls' = Append(calls, Call("create", 0, "ctl", TRUE))
          /\ pc' = "defer"
          /\ ret' = ret
       \/ /\ calls' = Append(calls, Call("create", 0, "ctl", FALSE))
          /\ ReturnWith(ReturnErr(WrapDockerError(Err(<<"create">>))))
    /\ UNCHANGED <<queryTags, allResourceTags, caller, cfg, copyToPaths, copyFromPaths, idx, defers, notified, c, caughtCtrlC, wpc,
                   proc, exitErr, pullErr, info, hung, outputBuffer, result, sigs>>

\* lines 83-90 with the defer statement of line 90 left out
DeferRemoveContainerForgotten ==
    /\ Alive /\ pc = "defer"
    /\ pc' = "notify"
    /\ UNCHANGED <<queryTags, allResourceTags, caller, cfg, copyToPaths, copyFromPaths, idx, defers, notified, c, caughtCtrlC, wpc,
                   proc, exitErr, calls, pullErr, info, hung, outputBuffer, ret, result, sigs>>

\* lines 83-90: defer removeContainer()
DeferRemoveContainer ==
    /\ Alive /\ pc = "defer"
    /\ defers' = <<"removeContainer">> \o defers
    /\ pc' = "notify"
    /\ UNCHANGED <<queryTags, allResourceTags, caller, cfg, copyToPaths, copyFromPaths, idx, notified, c, caughtCtrlC, wpc,
                   proc, exitErr, calls, pullErr, info, hung, outputBuffer, ret, result, sigs>>

\* lines 93-95
SignalNotify ==
    /\ Alive /\ pc = "notify"
    /\ notified' = TRUE
    /\ c' = 0
    /\ caughtCtrlC' = FALSE
    /\ pc' = "go"
    /\ UNCHANGED <<queryTags, allResourceTags, caller, cfg, copyToPaths, copyFromPaths, idx, defers, wpc,
                   proc, exitErr, calls, pullErr, info, hung, outputBuffer, ret, result, sigs>>

\* lines 97-114 with the copy-in loop placed after ContainerStart: start is
\* reached without the copy-ins having run
RunWithPanicHandlerThenStart ==
    /\ Alive /\ pc = "go"
    /\ wpc' = "waiting"
    /\ idx' = 1
    /\ pc' = "start"
    /\ UNCHANGED <<queryTags, allResourceTags, caller, cfg, copyToPaths, copyFromPaths, defers, notified, c, caughtCtrlC,
                   proc, exitErr, calls, pullErr, info, hung, outputBuffer, ret, result, sigs>>

\* lines 97-102: the function is started as a goroutine; the controller goes on
\* to the copy-in loop (or past it when there is nothing to copy)
RunWithPanicHandler ==
    /\ Alive /\ pc = "go"
    /\ wpc' = "waiting"
    /\ idx' = 1
    /\ pc' = IF copyToPaths >= 1 THEN "copyTo" ELSE "start"
    /\ UNCHANGED <<queryTags, allResourceTags, caller, cfg, copyToPaths, copyFromPaths, defers, notified, c, caughtCtrlC,
                   proc, exitErr, calls, pullErr, info, hung, outputBuffer, ret, result, sigs>>

\* lines 104-109 with the error of docker.CopyToContainer ignored
CopyToContainerIgnoresError ==
    /\ Alive /\ pc = "copyTo"
    /\ \E ok \in BOOLEAN : calls' = Append(calls, Call("copyTo", idx, "ctl", ok))
    /\ idx' = idx + 1
    /\ pc' = IF idx + 1 <= copyToPaths THEN "copyTo" ELSE "start"
    /\ UNCHANGED <<queryTags, allResourceTags, caller, cfg, copyToPaths, copyFromPaths, defers, notified, c, caughtCtrlC, wpc,
                   proc, exitErr, pullErr, info, hung, outputBuffer, ret, result, sigs>>

\* lines 104-109: one iteration of the loop over copyToPaths
CopyToContainer ==
    /\ Alive /\ pc = "copyTo"
    /\ \/ /\ calls' = Append(calls, Call("copyTo", idx, "ctl", TRUE))
          /\ idx' = idx + 1
          /\ pc' = IF idx + 1 <= copyToPaths THEN "copyTo" ELSE "start"
          /\ ret' = ret
       \/ /\ calls' = Append(calls, Call("copyTo", idx, "ctl", FALSE))
          /\ idx' = idx
          /\ ReturnWith(ReturnErr(Err(<<"copyTo">>)))
    /\ UNCHANGED <<queryTags, allResourceTags, caller, cfg, copyToPaths, copyFromPaths, defers, notified, c, caughtCtrlC, wpc,
                   proc, exitErr, pullErr, info, hung, outputBuffer, result, sigs>>

\* lines 111-114
ContainerStartIgnoresError ==
    /\ Alive /\ pc = "start"
    /\ \E ok \in BOOLEAN : calls' = Append(calls, Call("start", 0, "ctl", ok))
    /\ pc' = "attach"
    /\ UNCHANGED <<queryTags, allResourceTags, caller, cfg, copyToPaths, copyFromPaths, idx, defers, notified, c, caughtCtrlC, wpc,
                   proc, exitErr, pullErr, info, hung, outputBuffer, ret, result, sigs>>

ContainerStartRetries ==
    /\ Alive /\ pc = "start"
    /\ \/ /\ calls' = Append(calls, Call("start", 0, "ctl", TRUE))
          /\ pc' = "attach"
       \/ /\ calls' = Append(calls, Call("start", 0, "ctl", FALSE))
          /\ pc' = "start"
    /\ UNCHANGED <<queryTags, allResourceTags, caller, cfg, copyToPaths, copyFromPaths, idx, defers, notified, c, caughtCtrlC, wpc,
                   proc, exitErr, pullErr, info, hung, outputBuffer, ret, result, sigs>>

ContainerStart ==
    /\ Alive /\ pc = "start"
    /\ \/ /\ calls' = Append(calls, Call("start", 0, "ctl", TRUE))
          /\ pc' = "attach"
          /\ ret' = ret
       \/ /\ calls' = Append(calls, Call("start", 0, "ctl", FALSE))
          /\ ReturnWith(ReturnErr(WrapDockerError(Err(<<"start">>))))
    /\ UNCHANGED <<queryTags, allResourceTags, caller, cfg, copyToPaths, copyFromPaths, idx, defers, notified, c, caughtCtrlC, wpc,
                   proc, exitErr, pullErr, info, hung, outputBuffer, result, sigs>>

\* lines 117-125: on success defer logsOutput.Close(); the stream obtained either
\* reaches end-of-stream (or fails) at some time, or never does
ContainerAttach ==
    /\ Alive /\ pc = "attach"
    /\ \/ /\ calls' = Append(calls, Call("attach", 0, "ctl", TRUE))
          /\ defers' = <<"logsOutput.Close">> \o defers
          /\ hung' \in BOOLEAN
          /\ pc' = "copy"
          /\ ret' = ret
       \/ /\ calls' = Append(calls, Call("attach", 0, "ctl", FALSE))
          /\ ReturnWith(ReturnErr(WrapDockerError(Err(<<"attach">>))))
          /\ UNCHANGED <<defers, hung>>
    /\ UNCHANGED <<queryTags, allResourceTags, caller, cfg, copyToPaths, copyFromPaths, idx, notified, c, caughtCtrlC, wpc,
                   proc, exitErr, pullErr, info, outputBuffer, result, sigs>>

\* lines 127-133: io.Copy through the tee returns at end-of-stream or on a read
\* error, with the bytes read so far in outputBuffer
IoCopyTimesOut ==
    /\ Alive /\ pc = "copy"
    /\ \E s \in Streams :
          /\ outputBuffer' = s
          /\ \/ /\ calls' = Append(calls, Call("read", 0, "ctl", TRUE))
                /\ pc' = "flag"
                /\ ret' = ret
             \/ /\ calls' = Append(calls, Call("read", 0, "ctl", FALSE))
                /\ ReturnWith(ReturnErr(WithStack(Err(<<"read">>))))
    /\ UNCHANGED <<queryTags, allResourceTags, caller, cfg, copyToPaths, copyFromPaths, idx, defers, notified, c, caughtCtrlC, wpc,
                   proc, exitErr, pullErr, info, hung, result, sigs>>

IoCopyIgnoresReadError ==
    /\ Alive /\ pc = "copy" /\ ~hung
    /\ \E s \in Streams, ok \in BOOLEAN :
          /\ outputBuffer' = s
          /\ calls' = Append(calls, Call("read", 0, "ctl", ok))
          /\ pc' = "flag"
    /\ UNCHANGED <<queryTags, allResourceTags, caller, cfg, copyToPaths, copyFromPaths, idx, defers, notified, c, caughtCtrlC, wpc,
                   proc, exitErr, pullErr, info, hung, ret, result, sigs>>

IoCopy ==
    /\ Alive /\ pc = "copy" /\ ~hung
    /\ \E s \in Streams :
          /\ outputBuffer' = s
          /\ \/ /\ calls' = Append(calls, Call("read", 0, "ctl", TRUE))
                /\ pc' = "flag"
                /\ ret' = ret
             \/ /\ calls' = Append(calls, Call("read", 0, "ctl", FALSE))
                /\ ReturnWith(ReturnErr(WithStack(Err(<<"read">>))))
    /\ UNCHANGED <<queryTags, allResourceTags, caller, cfg, copyToPaths, copyFromPaths, idx, defers, notified, c, caughtCtrlC, wpc,
                   proc, exitErr, pullErr, info, hung, result, sigs>>

\* line 138: an unsynchronized read of caughtCtrlC; once the goroutine has written
\* it the read yields the written value or the stale one
ReadCaughtCtrlC ==
    /\ Alive /\ pc = "flag"
    /\ \E seen \in (IF caughtCtrlC THEN {TRUE, FALSE} ELSE {FALSE}) :
          pc' = IF seen THEN "sleep" ELSE "inspect"
    /\ UNCHANGED <<queryTags, allResourceTags, caller, cfg, copyToPaths, copyFromPaths, idx, defers, notified, c, caughtCtrlC, wpc,
                   proc, exitErr, calls, pullErr, info, hung, outputBuffer, ret, result, sigs>>

SleepResetsFlag ==
    /\ Alive /\ pc = "sleep"
    /\ pc' = "inspect"
    /\ caughtCtrlC' = FALSE
    /\ UNCHANGED <<queryTags, allResourceTags, caller, cfg, copyToPaths, copyFromPaths, idx, defers, notified, c, wpc,
                   proc, exitErr, calls, pullErr, info, hung, outputBuffer, ret, result, sigs>>

\* line 139: time.Sleep(5 * time.Second) returns
Sleep ==
    /\ Alive /\ pc = "sleep"
    /\ pc' = "inspect"
    /\ UNCHANGED <<queryTags, allResourceTags, caller, cfg, copyToPaths, copyFromPaths, idx, defers, notified, c, caughtCtrlC, wpc,
                   proc, exitErr, calls, pullErr, info, hung, outputBuffer, ret, result, sigs>>

\* lines 156-160
FinalResultAlwaysCode(inf) ==
    [output |-> Normalize(outputBuffer), exitCode |-> Some(inf.ExitCode), err |-> Nil]

FinalResultRawOutput(inf) ==
    IF inf.Running
    THEN [output |-> outputBuffer, exitCode |-> Nil, err |-> Nil]
    ELSE [output |-> outputBuffer, exitCode |-> Some(inf.ExitCode), err |-> Nil]

FinalResult(inf) ==
    IF inf.Running
    THEN [output |-> Normalize(outputBuffer), exitCode |-> Nil, err |-> Nil]
    ELSE [output |-> Normalize(outputBuffer), exitCode |-> Some(inf.ExitCode), err |-> Nil]

\* lines 142-147 with the test of line 147 left out: the copy-out loop runs
\* whatever the exit code
ContainerInspectUngated ==
    /\ Alive /\ pc = "inspect"
    /\ \/ \E r \in BOOLEAN, code \in 0..MaxExitCode :
             LET inf == [Running |-> r, ExitCode |-> code] IN
             /\ calls' = Append(calls, Call("inspect", 0, "ctl", TRUE))
             /\ info' = Some(inf)
             /\ idx' = 1
             /\ IF copyFromPaths >= 1
                THEN pc' = "copyFrom" /\ ret' = ret
                ELSE ReturnWith(FinalResult(inf))
       \/ /\ calls' = Append(calls, Call("inspect", 0, "ctl", FALSE))
          /\ ReturnWith(ReturnErr(WithStack(Err(<<"inspect">>))))
          /\ UNCHANGED <<info, idx>>
    /\ UNCHANGED <<queryTags, allResourceTags, caller, cfg, copyToPaths, copyFromPaths, defers, notified, c, caughtCtrlC, wpc,
                   proc, exitErr, pullErr, hung, outputBuffer, result, sigs>>

\* lines 142-147 (and 156-160 when the copy-out loop has nothing to do)
ContainerInspect ==
    /\ Alive /\ pc = "inspect"
    /\ \/ \E r \in BOOLEAN, code \in 0..MaxExitCode :
             LET inf == [Running |-> r, ExitCode |-> code] IN
             /\ calls' = Append(calls, Call("inspect", 0, "ctl", TRUE))
             /\ info' = Some(inf)
             /\ idx' = 1
             /\ IF inf.ExitCode = 0 /\ copyFromPaths >= 1
                THEN pc' = "copyFrom" /\ ret' = ret
                ELSE ReturnWith(FinalResult(inf))
       \/ /\ calls' = Append(calls, Call("inspect", 0, "ctl", FALSE))
          /\ ReturnWith(ReturnErr(WithStack(Err(<<"inspect">>))))
          /\ UNCHANGED <<info, idx>>
    /\ UNCHANGED <<queryTags, allResourceTags, caller, cfg, copyToPaths, copyFromPaths, defers, notified, c, caughtCtrlC, wpc,
                   proc, exitErr, pullErr, hung, outputBuffer, result, sigs>>

\* lines 148-153 with the loop left after its first iteration
CopyFromContainerFirstOnly ==
    /\ Alive /\ pc = "copyFrom"
    /\ \/ /\ calls' = Append(calls, Call("copyFrom", idx, "ctl", TRUE))
          /\ idx' = idx + 1
          /\ ReturnWith(FinalResult(info[1]))
       \/ /\ calls' = Append(calls, Call("copyFrom", idx, "ctl", FALSE))
          /\ idx' = idx
          /\ ReturnWith(ReturnErr(Err(<<"copyFrom">>)))
    /\ UNCHANGED <<queryTags, allResourceTags, caller, cfg, copyToPaths, copyFromPaths, defers, notified, c, caughtCtrlC, wpc,
                   proc, exitErr, pullErr, info, hung, outputBuffer, result, sigs>>

\* lines 148-153 with line 151 returning the inspected exit code next to the error
CopyFromContainerKeepsExitCode ==
    /\ Alive /\ pc = "copyFrom"
    /\ \/ /\ calls' = Append(calls, Call("copyFrom", idx, "ctl", TRUE))
          /\ idx' = idx + 1
          /\ IF idx + 1 <= copyFromPaths
             THEN pc' = "copyFrom" /\ ret' = ret
             ELSE ReturnWith(FinalResult(info[1]))
       \/ /\ calls' = Append(calls, Call("copyFrom", idx, "ctl", FALSE))
          /\ idx' = idx
          /\ ReturnWith([output |-> <<>>, exitCode |-> Some(info[1].ExitCode),
                         err |-> Some(Err(<<"copyFrom">>))])
    /\ UNCHANGED <<queryTags, allResourceTags, caller, cfg, copyToPaths, copyFromPaths, defers, notified, c, caughtCtrlC, wpc,
                   proc, exitErr, pullErr, info, hung, outputBuffer, result, sigs>>

\* lines 148-153 (and 156-160 after the last iteration)
CopyFromContainer ==
    /\ Alive /\ pc = "copyFrom"
    /\ \/ /\ calls' = Append(calls, Call("copyFrom", idx, "ctl", TRUE))
          /\ idx' = idx + 1
          /\ IF idx + 1 <= copyFromPaths
             THEN pc' = "copyFrom" /\ ret' = ret
             ELSE ReturnWith(FinalResult(info[1]))
       \/ /\ calls' = Append(calls, Call("copyFrom", idx, "ctl", FALSE))
          /\ idx' = idx
          /\ ReturnWith(ReturnErr(Err(<<"copyFrom">>)))
    /\ UNCHANGED <<queryTags, allResourceTags, caller, cfg, copyToPaths, copyFromPaths, defers, notified, c, caughtCtrlC, wpc,
                   proc, exitErr, pullErr, info, hung, outputBuffer, result, sigs>>

RunDeferredFifo ==
    /\ Alive /\ pc = "unwind" /\ defers # <<>>
    /\ \/ /\ defers[Len(defers)] = "logsOutput.Close"
          /\ calls' = Append(calls, Call("close", 0, "ctl", TRUE))
       \/ /\ defers[Len(defers)] = "removeContainer"
          /\ calls' = Append(calls, Call("remove", 0, "ctl", TRUE))
    /\ defers' = SubSeq(defers, 1, Len(defers) - 1)
    /\ UNCHANGED <<queryTags, allResourceTags, caller, pc, cfg, copyToPaths, copyFromPaths, idx, notified, c, caughtCtrlC, wpc,
                   proc, exitErr, pullErr, info, hung, outputBuffer, ret, result, sigs>>

\* lines 83-90 and 125: the deferred calls run last-in first-out once a return
\* statement has executed; the error of ContainerRemove is discarded (line 84),
\* so the call is recorded as issued whatever the engine answered
RunDeferred ==
    /\ Alive /\ pc = "unwind" /\ defers # <<>>
    /\ \/ /\ Head(defers) = "logsOutput.Close"
          /\ calls' = Append(calls, Call("close", 0, "ctl", TRUE))
       \/ /\ Head(defers) = "removeContainer"
          /\ calls' = Append(calls, Call("remove", 0, "ctl", TRUE))
    /\ defers' = Tail(defers)
    /\ UNCHANGED <<queryTags, allResourceTags, caller, pc, cfg, copyToPaths, copyFromPaths, idx, notified, c, caughtCtrlC, wpc,
                   proc, exitErr, pullErr, info, hung, outputBuffer, ret, result, sigs>>

\* runManager hands the triple of its return statement to the caller
Return ==
    /\ Alive /\ pc = "unwind" /\ defers = <<>>
    /\ result' = ret
    /\ pc' = "returned"
    /\ UNCHANGED <<queryTags, allResourceTags, caller, cfg, copyToPaths, copyFromPaths, idx, defers, notified, c, caughtCtrlC, wpc,
                   proc, exitErr, calls, pullErr, info, hung, outputBuffer, ret, sigs>>

\* ---------------------------------------------------------------- ctrl+c goroutine
\* line 98: <-c
WatcherReceive ==
    /\ Alive /\ wpc = "waiting" /\ c = 1
    /\ c' = 0
    /\ wpc' = "caught"
    /\ UNCHANGED <<queryTags, allResourceTags, caller, pc, cfg, copyToPaths, copyFromPaths, idx, defers, notified, caughtCtrlC,
                   proc, exitErr, calls, pullErr, info, hung, outputBuffer, ret, result, sigs>>

\* line 99: caughtCtrlC = true
WatcherSetFlag ==
    /\ Alive /\ wpc = "caught"
    /\ caughtCtrlC' = TRUE
    /\ wpc' = "remove"
    /\ UNCHANGED <<queryTags, allResourceTags, caller, pc, cfg, copyToPaths, copyFromPaths, idx, defers, notified, c,
                   proc, exitErr, calls, pullErr, info, hung, outputBuffer, ret, result, sigs>>

WatcherRemoveLoops ==
    /\ Alive /\ wpc = "remove"
    /\ calls' = Append(calls, Call("remove", 0, "watcher", TRUE))
    /\ wpc' = "waiting"
    /\ UNCHANGED <<queryTags, allResourceTags, caller, pc, cfg, copyToPaths, copyFromPaths, idx, defers, notified, c, caughtCtrlC,
                   proc, exitErr, pullErr, info, hung, outputBuffer, ret, result, sigs>>

\* line 100: removeContainer()
WatcherRemove ==
    /\ Alive /\ wpc = "remove"
    /\ calls' = Append(calls, Call("remove", 0, "watcher", TRUE))
    /\ wpc' = "exit"
    /\ UNCHANGED <<queryTags, allResourceTags, caller, pc, cfg, copyToPaths, copyFromPaths, idx, defers, notified, c, caughtCtrlC,
                   proc, exitErr, pullErr, info, hung, outputBuffer, ret, result, sigs>>

\* exit.Error(err): the process ends with err; no deferred call runs
ExitError(e) ==
    /\ proc' = "exited"
    /\ exitErr' = Some(e)

\* line 101: exit.Error(ErrorDockerCtrlC())
WatcherExit ==
    /\ Alive /\ wpc = "exit"
    /\ ExitError(ErrorDockerCtrlC)
    /\ wpc' = "done"
    /\ UNCHANGED <<queryTags, allResourceTags, caller, pc, cfg, copyToPaths, copyFromPaths, idx, defers, notified, c, caughtCtrlC,
                   calls, pullErr, info, hung, outputBuffer, ret, result, sigs>>

\* ---------------------------------------------------------------- environment
\* The operating system delivers os.Interrupt or SIGTERM to the process. Once
\* signal.Notify(c, ...) has been called (line 94) the signal is sent on c without
\* blocking (dropped when the buffer of 1 is full); before that the default
\* action ends the process.
Interrupt ==
    /\ Alive /\ Len(sigs) < MaxSignals
    /\ sigs' = Append(sigs, Phase)
    /\ IF notified
       THEN c' = 1 /\ proc' = proc
       ELSE c' = c /\ proc' = "killed"
    /\ UNCHANGED <<queryTags, allResourceTags, caller, pc, cfg, copyToPaths, copyFromPaths, idx, defers, notified, caughtCtrlC, wpc,
                   exitErr, calls, pullErr, info, hung, outputBuffer, ret, result>>

\* ---------------------------------------------------------------- invocation variants
\* a return statement of a variant with triple r
VariantReturnWith(r) ==
    /\ caller' = [caller EXCEPT !.ret = Some(r)]
    /\ pc' = "variantReturned"

\* lines 164-167: yaml.Marshal(clusterConfig)
YamlMarshal ==
    /\ Alive /\ pc = "marshal"
    /\ \/ pc' = "write" /\ caller' = caller
       \/ VariantReturnWith(ReturnErr(WithStack(Err(<<"marshal">>))))
    /\ UNCHANGED <<queryTags, allResourceTags, cfg, copyToPaths, copyFromPaths, idx, defers, notified, c, caughtCtrlC, wpc,
                   proc, exitErr, calls, pullErr, info, hung, outputBuffer, ret, result, sigs>>

\* lines 169-172: files.WriteFile(clusterConfigBytes, cachedClusterConfigPath)
WriteFile ==
    /\ Alive /\ pc = "write"
    /\ \/ pc' = "build" /\ caller' = caller
       \/ VariantReturnWith(ReturnErr(Err(<<"write">>)))
    /\ UNCHANGED <<queryTags, allResourceTags, cfg, copyToPaths, copyFromPaths, idx, defers, notified, c, caughtCtrlC, wpc,
                   proc, exitErr, calls, pullErr, info, hung, outputBuffer, ret, result, sigs>>

BuildContainerConfigPrepends ==
    /\ Alive /\ pc = "build"
    /\ cfg' = IF caller.variant = "clusterConfig"
              THEN [Env |-> <<"AWS_ACCESS_KEY_ID", "AWS_SECRET_ACCESS_KEY",
                              "CORTEX_CLUSTER_CONFIG_FILE">>,
                    Cmd0 |-> <<"eval $(python /root/cluster_config_env.py) && ",
                               "entrypoint">>]
              ELSE [Env |-> <<"AWS_ACCESS_KEY_ID", "AWS_SECRET_ACCESS_KEY",
                              "CORTEX_CLUSTER_NAME", "CORTEX_REGION">>,
                    Cmd0 |-> <<"entrypoint">>]
    /\ copyToPaths' = IF caller.variant = "clusterConfig" THEN copyToPaths + 1 ELSE copyToPaths
    /\ caller' = [caller EXCEPT !.runs = @ + 1,
                                !.configAt = IF caller.variant = "clusterConfig"
                                             THEN 1 ELSE 0]
    /\ pc' = "augment"
    /\ UNCHANGED <<queryTags, allResourceTags, copyFromPaths, idx, defers, notified, c, caughtCtrlC, wpc,
                   proc, exitErr, calls, pullErr, info, hung, outputBuffer, ret, result, sigs>>

\* lines 174-212 and 221-243: the variant appends its copy-in directive (the
\* cluster configuration file, lines 175-185; append puts it at position
\* len(copyToPaths) + 1, recorded as configAt), builds the container
\* configuration and calls runManager. Env is abbreviated to the entries that
\* tell the two variants apart.
BuildContainerConfig ==
    /\ Alive /\ pc = "build"
    /\ cfg' = IF caller.variant = "clusterConfig"
              THEN [Env |-> <<"AWS_ACCESS_KEY_ID", "AWS_SECRET_ACCESS_KEY",
                              "CORTEX_CLUSTER_CONFIG_FILE">>,
                    Cmd0 |-> <<"eval $(python /root/cluster_config_env.py) && ",
                               "entrypoint">>]
              ELSE [Env |-> <<"AWS_ACCESS_KEY_ID", "AWS_SECRET_ACCESS_KEY",
                              "CORTEX_CLUSTER_NAME", "CORTEX_REGION">>,
                    Cmd0 |-> <<"entrypoint">>]
    /\ copyToPaths' = IF caller.variant = "clusterConfig" THEN copyToPaths + 1 ELSE copyToPaths
    /\ caller' = [caller EXCEPT !.runs = @ + 1,
                                !.configAt = IF caller.variant = "clusterConfig"
                                             THEN copyToPaths + 1 ELSE 0]
    /\ pc' = "augment"
    /\ UNCHANGED <<queryTags, allResourceTags, copyFromPaths, idx, defers, notified, c, caughtCtrlC, wpc,
                   proc, exitErr, calls, pullErr, info, hung, outputBuffer, ret, result, sigs>>

\* lines 212-217 and 243-248: what the variant returns for the triple r of runManager
VariantResultDropsExitCode(r) ==
    [output |-> r.output, exitCode |-> Nil, err |-> r.err]

VariantResult(r) ==
    IF r.err # Nil
    THEN [output |-> <<>>, exitCode |-> Nil, err |-> r.err]
    ELSE [output |-> r.output, exitCode |-> r.exitCode, err |-> Nil]

\* lines 212-217 and 243-248
VariantReturn ==
    /\ Alive /\ pc = "returned" /\ caller.variant # "none"
    /\ VariantReturnWith(VariantResult(result[1]))
    /\ UNCHANGED <<queryTags, allResourceTags, cfg, copyToPaths, copyFromPaths, idx, defers, notified, c, caughtCtrlC, wpc,
                   proc, exitErr, calls, pullErr, info, hung, outputBuffer, ret, result, sigs>>

Controller ==
    \/ AugmentConfig \/ GetDockerClient \/ PullImage \/ ContainerCreate
    \/ DeferRemoveContainer \/ SignalNotify \/ RunWithPanicHandler
    \/ CopyToContainer \/ ContainerStart \/ ContainerAttach \/ IoCopy
    \/ ReadCaughtCtrlC \/ Sleep \/ ContainerInspect \/ CopyFromContainer
    \/ RunDeferred \/ Return

Watcher == WatcherReceive \/ WatcherSetFlag \/ WatcherRemove \/ WatcherExit

Next == Controller \/ Watcher \/ Interrupt

Spec == Init /\ [][Next]_vars

\* the same run started through one of the two invocation variants
Variant == YamlMarshal \/ WriteFile \/ BuildContainerConfig \/ VariantReturn

NextVariants == Variant \/ Next

SpecVariants == InitVariants /\ [][NextVariants]_vars

\* The Go scheduler runs a runnable goroutine eventually: the goroutine of
\* lines 97-102 is not starved once it can take a step.
LiveSpec == Spec /\ WF_vars(Watcher)

\* ---- the normalization of line 135 on its own ----

StreamAlphabet == {"CR", "LF", "x"}

\* io.Copy (line 130) has filled outputBuffer with any byte string
InitNormalize ==
    /\ outputBuffer \in SeqsUpTo(StreamAlphabet, MaxStreamLen)
    /\ pc = "normalize"
    /\ queryTags = <<>> /\ allResourceTags = <<>>
    /\ copyToPaths = 0 /\ copyFromPaths = 0 /\ idx = 0
    /\ defers = <<>> /\ notified = FALSE /\ c = 0 /\ caughtCtrlC = FALSE
    /\ wpc = "none" /\ proc = "alive" /\ exitErr = Nil /\ calls = <<>>
    /\ pullErr = Nil /\ info = Nil /\ hung = FALSE
    /\ ret = Nil /\ result = Nil /\ sigs = <<>>
    /\ cfg = [Env |-> <<>>, Cmd0 |-> <<>>]
    /\ caller = [variant |-> "none", runs |-> 0, ret |-> Nil, configAt |-> 0]

\* line 135 applied to the captured stream
NormalizeOutput ==
    /\ pc = "normalize"
    /\ ret' = Some(Normalize(outputBuffer))
    /\ pc' = "again"
    /\ UNCHANGED <<queryTags, allResourceTags, caller, cfg, copyToPaths, copyFromPaths, idx, defers, notified, c, caughtCtrlC, wpc,
                   proc, exitErr, calls, pullErr, info, hung, outputBuffer, result, sigs>>

\* line 135 applied to the same captured stream a second time
NormalizeSameStream ==
    /\ pc = "again"
    /\ caller' = [caller EXCEPT !.ret = Some(Normalize(outputBuffer)), !.runs = @ + 1]
    /\ pc' = "renormalize"
    /\ UNCHANGED <<queryTags, allResourceTags, cfg, copyToPaths, copyFromPaths, idx, defers, notified, c, caughtCtrlC, wpc,
                   proc, exitErr, calls, pullErr, info, hung, outputBuffer, ret, result, sigs>>

\* line 135 applied to the text it returned the first time
NormalizeNormalized ==
    /\ pc = "renormalize"
    /\ result' = Some(Normalize(ret[1]))
    /\ pc' = "renormalized"
    /\ UNCHANGED <<queryTags, allResourceTags, caller, cfg, copyToPaths, copyFromPaths, idx, defers, notified, c, caughtCtrlC, wpc,
                   proc, exitErr, calls, pullErr, info, hung, outputBuffer, ret, sigs>>

NextNormalize == NormalizeOutput \/ NormalizeSameStream \/ NormalizeNormalized

SpecNormalize == InitNormalize /\ [][NextNormalize]_vars


\* ---- the tag filter of ListVolumes (lines 839-861) on its own ----

\* an ec2.Tag: Key and Value are *string, nil or pointing to a string
Tags == [Key : {Nil, Some("a"), Some("b")}, Value : {Nil, Some("x"), Some("y")}]

tagMatchesIgnoresValue(queryTag, resourceTag) ==
    queryTag.Key # Nil /\ resourceTag.Key # Nil /\ queryTag.Key[1] = resourceTag.Key[1]

\* lines 851-858: the resource tag at which the loop returns true
tagMatches(queryTag, resourceTag) ==
    IF queryTag.Key # Nil /\ resourceTag.Key # Nil /\ queryTag.Key[1] = resourceTag.Key[1]
    THEN IF queryTag.Value = Nil
         THEN TRUE
         ELSE queryTag.Value # Nil /\ resourceTag.Value # Nil
                 /\ queryTag.Value[1] = resourceTag.Value[1]
    ELSE FALSE

RECURSIVE hasEC2TagFrom(_, _, _)
\* lines 850-860: the range loop from its i-th iteration on
hasEC2TagFrom(queryTag, resourceTags, i) ==
    IF i > Len(resourceTags) THEN FALSE
    ELSE IF tagMatches(queryTag, resourceTags[i]) THEN TRUE
    ELSE hasEC2TagFrom(queryTag, resourceTags, i + 1)

hasEC2Tag(queryTag, resourceTags) == hasEC2TagFrom(queryTag, resourceTags, 1)

RECURSIVE hasAllEC2TagsFrom(_, _, _)
\* lines 840-845: the range loop from its i-th iteration on
hasAllEC2TagsFrom(query, resourceTags, i) ==
    IF i > Len(query) THEN TRUE
    ELSE IF ~hasEC2Tag(query[i], resourceTags) THEN FALSE
    ELSE hasAllEC2TagsFrom(query, resourceTags, i + 1)

hasAllEC2Tags(query, resourceTags) == hasAllEC2TagsFrom(query, resourceTags, 1)

\* ListVolumes is about to filter one volume (line 813)
InitTags ==
    /\ queryTags \in SeqsUpTo(Tags, MaxTags)
    /\ allResourceTags \in SeqsUpTo(Tags, MaxTags)
    /\ pc = "hasAllEC2Tags"
    /\ copyToPaths = 0 /\ copyFromPaths = 0 /\ idx = 0
    /\ defers = <<>> /\ notified = FALSE /\ c = 0 /\ caughtCtrlC = FALSE
    /\ wpc = "none" /\ proc = "alive" /\ exitErr = Nil /\ calls = <<>>
    /\ pullErr = Nil /\ info = Nil /\ hung = FALSE /\ outputBuffer = <<>>
    /\ ret = Nil /\ result = Nil /\ sigs = <<>>
    /\ cfg = [Env |-> <<>>, Cmd0 |-> <<>>]
    /\ caller = [variant |-> "none", runs |-> 0, ret |-> Nil, configAt |-> 0]

\* line 813: hasAllEC2Tags(tags, volume.Tags) returns
HasAllEC2Tags ==
    /\ pc = "hasAllEC2Tags"
    /\ result' = Some(hasAllEC2Tags(queryTags, allResourceTags))
    /\ pc' = "matched"
    /\ UNCHANGED <<queryTags, allResourceTags, caller, cfg, copyToPaths, copyFromPaths, idx, defers,
                   notified, c, caughtCtrlC, wpc, proc, exitErr, calls, pullErr, info, hung,
                   outputBuffer, ret, sigs>>

SpecTags == InitTags /\ [][HasAllEC2Tags]_vars


\* ---------------------------------------------------------------- observations
Range(s) == {s[k] : k \in DOMAIN s}

CallIdx(op) == {k \in DOMAIN calls : calls[k].op = op}

Invoked(op) == CallIdx(op) # {}

Succeeded(op) == \E k \in CallIdx(op) : calls[k].ok

Failed(op) == \E k \in CallIdx(op) : ~calls[k].ok

Removes == Cardinality(CallIdx("remove"))

NoStepFailed == \A k \in DOMAIN calls : calls[k].ok

Returned == pc = "returned"

CopyFromCalls == SelectSeq(calls, LAMBDA x : x.op = "copyFrom")

\* the engine calls of the lifecycle, in the order the claim gives them
RankOf ==
    [pull |-> 1, create |-> 2, copyTo |-> 3, start |-> 4, attach |-> 5, read |-> 6,
     inspect |-> 7, copyFrom |-> 8, close |-> 9, remove |-> 9]

Rank(op) == RankOf[op]

Lifecycle == {k \in DOMAIN calls : Rank(calls[k].op) <= 8}

LifecycleCalls == SelectSeq(calls, LAMBDA x : Rank(x.op) <= 8)

\* ---------------------------------------------------------------- claims

\* C1: in every run in which ContainerCreate succeeded and no signal was
\* delivered, ContainerRemove has been invoked exactly once when runManager
\* returns (and never more than once before), whichever later step failed.
C1_RemoveExactlyOnce ==
    (Succeeded("create") /\ sigs = <<>>) =>
        /\ Removes <= 1
        /\ Returned => Removes = 1

C1_Witness ==
    /\ Returned /\ Succeeded("create") /\ sigs = <<>>
    /\ Failed("copyFrom")
    /\ Removes = 1

\* C2: ContainerRemove is called at most once for the created container, for
\* every interleaving of the controller (its deferred removal included) with
\* the goroutine's removal-then-exit.
C2_RemoveAtMostOnce == Removes <= 1

\* C3: a signal delivered between the success of ContainerCreate and the
\* completion of the stream copy ends the process through exit.Error with the
\* ctrl+c error after a removal of the container, and runManager never hands a
\* result without error to its caller in such a run.
C3_CancellationNeverReturns ==
    (Range(sigs) \cap {"window", "stream"} # {}) =>
        /\ ~Alive => (proc = "exited" /\ exitErr = Some(ErrorDockerCtrlC) /\ Removes >= 1)
        /\ ~(Returned /\ result[1].err = Nil)

\* C4: when every step succeeded and the inspected exit code is 0, the copy-out
\* directives have each been executed exactly once, in list order, when
\* runManager returns.
C4_CopyOutOnceInOrder ==
    (Returned /\ NoStepFailed /\ info # Nil /\ info[1].ExitCode = 0) =>
        CopyFromCalls = [k \in 1..copyFromPaths |-> Call("copyFrom", k, "ctl", TRUE)]

C4_Witness ==
    /\ Returned /\ NoStepFailed /\ info # Nil /\ info[1].ExitCode = 0
    /\ copyFromPaths = 2
    /\ Len(CopyFromCalls) = 2

\* C5 as stated: when the inspected exit code is non-zero and no step failed,
\* no copy-out is executed and runManager returns a nil error with a non-nil
\* exit code equal to the inspected one.
C5_NonZeroExitAsClaimed ==
    (Returned /\ NoStepFailed /\ info # Nil /\ info[1].ExitCode # 0) =>
        /\ ~Invoked("copyFrom")
        /\ result[1].err = Nil
        /\ result[1].exitCode = Some(info[1].ExitCode)

\* C5 amended: when the inspected exit code is non-zero, the container is not
\* reported as running and no step failed, no copy-out is executed and
\* runManager returns a nil error with the inspected exit code; when it is
\* reported as running the exit code returned is nil.
C5_NonZeroExit ==
    (Returned /\ NoStepFailed /\ info # Nil /\ info[1].ExitCode # 0) =>
        /\ ~Invoked("copyFrom")
        /\ result[1].err = Nil
        /\ result[1].exitCode = IF info[1].Running THEN Nil ELSE Some(info[1].ExitCode)

C5_Witness ==
    /\ Returned /\ NoStepFailed /\ info # Nil
    /\ info[1].ExitCode = 1 /\ ~info[1].Running
    /\ copyFromPaths >= 1
    /\ result[1].exitCode = Some(1)

\* C6: the controller's engine calls occur in the order pull, create, copy-ins,
\* start, attach, inspect, copy-outs: start is invoked only after every copy-in
\* has succeeded, attach only after start, inspect only after attach, and a
\* copy-out only after an inspect that reported exit code 0.
C6_CallOrder ==
    LET L == LifecycleCalls
        ops == {calls[k].op : k \in DOMAIN calls}
    IN
    /\ \A k \in 1..(Len(L) - 1) :
          /\ Rank(L[k].op) <= Rank(L[k + 1].op)
          /\ L[k].op = L[k + 1].op =>
                (L[k].op \in {"copyTo", "copyFrom"} /\ L[k + 1].n = L[k].n + 1)
    /\ "start" \in ops =>
          \A n \in 1..copyToPaths : Call("copyTo", n, "ctl", TRUE) \in Range(calls)
    /\ "attach" \in ops => Call("start", 0, "ctl", TRUE) \in Range(calls)
    /\ "inspect" \in ops => Call("attach", 0, "ctl", TRUE) \in Range(calls)
    /\ "copyFrom" \in ops =>
          /\ Call("inspect", 0, "ctl", TRUE) \in Range(calls)
          /\ info # Nil /\ info[1].ExitCode = 0

C6_Witness ==
    /\ copyToPaths = 2
    /\ Cardinality(CallIdx("copyTo")) = 2
    /\ Cardinality(CallIdx("copyFrom")) = 2
    /\ Succeeded("start") /\ Succeeded("attach") /\ Succeeded("inspect")

\* C7: when a copy-in fails, the remaining copy-ins are skipped, ContainerStart
\* is never invoked, runManager returns that error, and the deferred removal
\* has run when it returns.
C7_CopyInFailureAborts ==
    \A k \in CallIdx("copyTo") :
        ~calls[k].ok =>
            /\ \A j \in Lifecycle : j <= k
            /\ ~Invoked("start")
            /\ Returned =>
                  /\ result = Some(ReturnErr(Err(<<"copyTo">>)))
                  /\ \E j \in CallIdx("remove") : calls[j].by = "ctl"

C7_Witness ==
    /\ Returned /\ copyToPaths = 2
    /\ \E k \in CallIdx("copyTo") : calls[k].n = 1 /\ ~calls[k].ok
    /\ \E j \in CallIdx("remove") : calls[j].by = "ctl"

\* C8 as stated: when a copy-out fails after inspect reported exit code 0,
\* runManager returns a non-nil error together with the exit code 0.
C8_CopyOutFailureAsClaimed ==
    (Returned /\ Failed("copyFrom")) =>
        /\ result[1].err # Nil
        /\ result[1].exitCode = Some(0)

\* C8 amended: when a copy-out fails after inspect reported exit code 0,
\* runManager returns the copy-out error with a nil exit code and an empty
\* output; the inspected exit code is not reported.
C8_CopyOutFailure ==
    (Returned /\ Failed("copyFrom")) =>
        /\ info[1].ExitCode = 0
        /\ result[1].err = Some(Err(<<"copyFrom">>))
        /\ result[1].exitCode = Nil
        /\ result[1].output = <<>>

C8_Witness ==
    /\ Returned /\ Failed("copyFrom")
    /\ info[1].ExitCode = 0 /\ ~info[1].Running
    /\ result[1].exitCode = Nil /\ result[1].err # Nil

\* C9: when the image pull fails, ContainerCreate and every later engine call
\* (removal included) are never invoked and the error is returned; the
\* returned text is the pull error followed by the docker login / docker pull
\* guidance exactly when the pull error's text contains "auth", and the pull
\* error unmodified otherwise.
C9_PullFailure ==
    (pullErr # Nil) =>
        /\ \A k \in DOMAIN calls : calls[k].op = "pull"
        /\ defers = <<>> /\ wpc = "none" /\ ~notified
        /\ Returned =>
              /\ result[1].output = <<>> /\ result[1].exitCode = Nil
              /\ result[1].err # Nil
              /\ LET text == result[1].err[1].text
                     hasAuth == \E k \in 1..(Len(pullErr[1]) - 3) :
                                   /\ pullErr[1][k] = "a" /\ pullErr[1][k + 1] = "u"
                                   /\ pullErr[1][k + 2] = "t" /\ pullErr[1][k + 3] = "h"
                 IN /\ hasAuth => text = pullErr[1] \o <<"docker login", "docker pull">>
                    /\ ~hasAuth => text = pullErr[1]

C9_Witness ==
    /\ Returned
    /\ pullErr = Some(<<"a", "u", "t", "h">>)
    /\ result[1].err[1].text = <<"a", "u", "t", "h", "docker login", "docker pull">>

\* C10: when ContainerCreate fails, runManager returns the wrapped error and
\* ContainerRemove is never invoked, the ctrl+c goroutine is never started (no
\* signal.Notify either), and no copy-in, start, attach, inspect or copy-out
\* is performed.
C10_CreateFailure ==
    Failed("create") =>
        /\ \A k \in DOMAIN calls : calls[k].op \in {"pull", "create"}
        /\ defers = <<>> /\ wpc = "none" /\ ~notified
        /\ Returned =>
              result = Some([output |-> <<>>, exitCode |-> Nil,
                             err |-> Some([text |-> <<"create">>, wrap |-> "docker"])])

C10_Witness ==
    /\ Returned /\ Failed("create")
    /\ result[1].err[1].wrap = "docker"
    /\ Removes = 0

\* C11: once a lifecycle step (pull, create, copy-in, start, attach, stream
\* read, inspect, copy-out) has failed, no later lifecycle step is invoked in
\* that run; what may follow is the container removal, and only when creation
\* had succeeded (and the local close of the attached connection, which is
\* not an engine call).
C11_ErrorAborts ==
    \A k \in DOMAIN calls :
        (Rank(calls[k].op) <= 8 /\ ~calls[k].ok) =>
            \A j \in DOMAIN calls :
                j > k => /\ calls[j].op \in {"remove", "close"}
                         /\ calls[j].op = "remove" => Succeeded("create")

C11_Witness ==
    /\ Returned /\ Failed("inspect")
    /\ calls[Len(calls)] = Call("remove", 0, "ctl", TRUE)
    /\ result[1].err # Nil

\* C12: when inspect reports the container as still running, runManager
\* returns the captured output with a nil exit code and a nil error; in every
\* other successful run the returned exit code is non-nil and equals the
\* inspected exit code.
C12_RunningGivesNilExitCode ==
    (Returned /\ NoStepFailed /\ info # Nil) =>
        /\ result[1].err = Nil
        /\ result[1].output = Normalize(outputBuffer)
        /\ info[1].Running => result[1].exitCode = Nil
        /\ ~info[1].Running => result[1].exitCode = Some(info[1].ExitCode)

C12_Witness ==
    /\ Returned /\ NoStepFailed /\ info # Nil
    /\ info[1].Running /\ info[1].ExitCode = 1
    /\ result[1].exitCode = Nil /\ result[1].err = Nil
    /\ result[1].output # <<>>

\* C13 (as claimed): newline normalization is idempotent and deterministic:
\* normalizing the already-normalized output yields the same text, and
\* normalizing the same stream twice yields identical text.
C13_NormalizeIdempotent ==
    pc = "renormalized" =>
        /\ result[1] = ret[1]
        /\ caller.ret = ret

\* s with every CR that is immediately followed by LF deleted
DropCRBeforeLF(s) ==
    LET keep == {i \in DOMAIN s : ~(s[i] = "CR" /\ i < Len(s) /\ s[i + 1] = "LF")}
        nth(k) == CHOOSE i \in keep : Cardinality({j \in keep : j <= i}) = k
    IN  [k \in 1..Cardinality(keep) |-> s[nth(k)]]

\* C14: when every step succeeds, the stream delivers "hello\r\nworld\r\n",
\* inspect reports a non-running container with exit code 0 and there are no
\* copy-out directives, runManager returns ("hello\nworld\n", 0, nil); in
\* general the returned output is the streamed bytes with each "\r\n"
\* replaced by "\n".
C14_HelloWorld ==
    (Returned /\ NoStepFailed /\ info # Nil) =>
        /\ result[1].output = DropCRBeforeLF(outputBuffer)
        /\ (outputBuffer = Hello /\ ~info[1].Running /\ info[1].ExitCode = 0
                /\ copyFromPaths = 0) =>
              result = Some([output |-> <<"hello", "LF", "world", "LF">>,
                             exitCode |-> Some(0), err |-> Nil])

C14_Witness ==
    /\ Returned /\ NoStepFailed /\ info = Some([Running |-> FALSE, ExitCode |-> 0])
    /\ outputBuffer = Hello /\ copyFromPaths = 0
    /\ Succeeded("create") /\ Succeeded("start") /\ Succeeded("attach")
    /\ result[1].output = <<"hello", "LF", "world", "LF">>

\* C15 (as claimed): once runManager has returned normally, a later interrupt
\* does not wake that run's watcher: the watcher performs no ContainerRemove
\* and issues no process exit.
C15_WatcherStoppedAfterReturn ==
    (result # Nil /\ result[1].err = Nil /\ Range(sigs) \subseteq {"returned"}) =>
        /\ wpc \in {"none", "waiting"}
        /\ exitErr = Nil
        /\ \A k \in DOMAIN calls : calls[k].by # "watcher"

\* how far the goroutine of lines 97-102 has got
WatcherRank ==
    [none |-> 0, waiting |-> 1, caught |-> 2, remove |-> 3, exit |-> 4, done |-> 5][wpc]

WatcherRemoves == Cardinality({k \in DOMAIN calls : calls[k].by = "watcher"})

\* C16: however many signals are delivered during one run, the watcher sets
\* the flag, performs removal and requests process exit at most once each: it
\* never goes back to an earlier step, and each of the three effects happens
\* only on its own step.
C16_WatcherFiresOnce ==
    /\ [](WatcherRemoves <= 1 /\ (exitErr # Nil => wpc = "done"))
    /\ [][/\ WatcherRank' >= WatcherRank
          /\ caughtCtrlC' # caughtCtrlC => (wpc = "caught" /\ wpc' = "remove")
          /\ WatcherRemoves' # WatcherRemoves => (wpc = "remove" /\ wpc' = "exit")
          /\ exitErr' # exitErr => (wpc = "exit" /\ wpc' = "done")]_vars

C16_Witness ==
    /\ Len(sigs) >= 2 /\ Range(sigs) \subseteq {"window", "stream", "post"}
    /\ wpc = "done" /\ caughtCtrlC /\ WatcherRemoves = 1
    /\ exitErr = Some(ErrorDockerCtrlC)

\* C17: if the attached stream never reaches end-of-stream the run never
\* leaves the stream copy on its own (there is no timeout), and, the watcher
\* being scheduled fairly, an interrupt delivered while the run is alive
\* leads to the container removal and the termination of the process.
C17_HungRunNeedsInterrupt ==
    /\ [][(hung /\ pc = "copy") => (pc' = "copy" /\ ret' = Nil /\ result' = Nil)]_vars
    /\ (hung /\ pc = "copy" /\ sigs # <<>>)
          ~> (proc = "exited" /\ WatcherRemoves = 1 /\ exitErr = Some(ErrorDockerCtrlC))

C17_Witness ==
    /\ hung /\ pc = "copy" /\ "stream" \in Range(sigs)
    /\ proc = "exited" /\ WatcherRemoves = 1 /\ result = Nil

\* C18: runManagerWithClusterConfig and runManagerAccessCommand call runManager
\* at most once, and when they have called it they return exactly the
\* (output, exitCode, error) triple it returned.
C18_VariantsReturnUnchanged ==
    /\ caller.runs <= 1
    /\ (pc = "variantReturned" /\ caller.runs = 1) =>
          (result # Nil /\ caller.ret = result)

C18_Witness ==
    /\ pc = "variantReturned" /\ caller.variant = "clusterConfig" /\ caller.runs = 1
    /\ caller.ret = result
    /\ result[1].exitCode = Some(1) /\ result[1].output # <<>>

\* C19 (as claimed): when an interrupt is delivered during streaming and the
\* stream then ends, the controller sees the flag set and does not go on to
\* inspect, copy-out or its own deferred removal: the watcher removes the
\* container and ends the process first.
C19_NoTeardownRace ==
    ("stream" \in Range(sigs) /\ Succeeded("read")) =>
        /\ pc \in {"flag", "sleep"}
        /\ ~Invoked("inspect") /\ ~Invoked("copyFrom")
        /\ \A k \in DOMAIN calls : ~(calls[k].op = "remove" /\ calls[k].by = "ctl")

\* C20: the cancel flag starts false; only the watcher writes it, once, from
\* false to true, and it is never reset; the controller reads it once, after
\* the stream copy has completed, and that read alone decides whether it
\* pauses; no other step of the run reads or writes it.
C20_FlagHandoff ==
    /\ [](caughtCtrlC <=> wpc \in {"remove", "exit", "done"})
    /\ [][/\ caughtCtrlC' # caughtCtrlC =>
                (wpc = "caught" /\ wpc' = "remove" /\ caughtCtrlC' /\ pc' = pc)
          /\ (pc' = "flag" /\ pc # "flag") =>
                (pc = "copy" /\ calls' = Append(calls, Call("read", 0, "ctl", TRUE)))
          /\ (pc' = "copy" /\ pc # "copy") => pc = "attach"
          /\ (pc = "flag" /\ pc' # "flag") =>
                (pc' \in {"sleep", "inspect"} /\ (pc' = "sleep" => caughtCtrlC))
          /\ (pc' = "sleep" /\ pc # "sleep") => pc = "flag"]_vars

C20_Witness ==
    /\ pc = "sleep" /\ caughtCtrlC /\ Succeeded("read")
    /\ wpc = "remove" /\ "stream" \in Range(sigs)

\* C21 (as claimed): copy-out directives are never executed for a container
\* that inspect reports as still running: a copy-out is attempted only when
\* the container was inspected as not running with exit code 0.
C21_NoCopyOutWhileRunning ==
    Invoked("copyFrom") =>
        /\ info # Nil
        /\ ~info[1].Running
        /\ info[1].ExitCode = 0

\* C22 (as claimed): once ContainerCreate has succeeded, an interrupt never
\* terminates the process without a removal of the created container having
\* been attempted, the states between create returning and the signal
\* registration included.
C22_InterruptAlwaysRemoves ==
    (Succeeded("create") /\ proc # "alive") => Removes >= 1

\* the controller's own calls, in order
CtlOps == [k \in DOMAIN SelectSeq(calls, LAMBDA x : x.by = "ctl") |->
              SelectSeq(calls, LAMBDA x : x.by = "ctl")[k].op]

\* C23: a read error on the attached stream is fatal: neither inspect nor a
\* copy-out is invoked afterwards, and when runManager returns it returns that
\* error, having closed the attached stream and then removed the container.
C23_ReadErrorFatal ==
    Failed("read") =>
        /\ ~Invoked("inspect") /\ ~Invoked("copyFrom")
        /\ pc \in {"unwind", "returned"}
        /\ Returned =>
              /\ result = Some([output |-> <<>>, exitCode |-> Nil,
                                err |-> Some([text |-> <<"read">>, wrap |-> "stack"])])
              /\ Len(CtlOps) >= 3
              /\ SubSeq(CtlOps, Len(CtlOps) - 2, Len(CtlOps)) = <<"read", "close", "remove">>

C23_Witness ==
    /\ Returned /\ Failed("read") /\ outputBuffer # <<>>
    /\ result[1].err = Some([text |-> <<"read">>, wrap |-> "stack"])
    /\ Invoked("close") /\ Removes = 1

\* C24: no engine call is retried: within one run pull, create, start, attach
\* and inspect are each invoked at most once, and each copy-in and copy-out
\* directive is attempted at most once, whether the call succeeds or fails.
C24_NoRetry ==
    /\ \A op \in {"pull", "create", "start", "attach", "read", "inspect"} :
          Cardinality(CallIdx(op)) <= 1
    /\ LET to == CallIdx("copyTo")
           from == CallIdx("copyFrom")
       IN  /\ Cardinality({calls[k].n : k \in to}) = Cardinality(to)
           /\ Cardinality({calls[k].n : k \in from}) = Cardinality(from)
           /\ \A k \in to : calls[k].n \in 1..copyToPaths
           /\ \A k \in from : calls[k].n \in 1..copyFromPaths

C24_Witness ==
    /\ Returned /\ Failed("copyFrom")
    /\ Cardinality(CallIdx("copyTo")) = 2 /\ Cardinality(CallIdx("copyFrom")) = 2
    /\ \A op \in {"pull", "create", "start", "attach", "inspect"} :
          Cardinality(CallIdx(op)) = 1

\* C25: whenever runManager returns a non-nil error, the returned output is
\* empty and the returned exit code is nil, even if output had been captured
\* and an exit code inspected; a non-empty output or a non-nil exit code comes
\* only with a nil error.
C25_ErrorMeansEmptyResult ==
    (Returned /\ result[1].err # Nil) =>
        (result[1].output = <<>> /\ result[1].exitCode = Nil)

C25_Witness ==
    /\ Returned /\ result[1].err # Nil
    /\ outputBuffer # <<>> /\ info # Nil
    /\ result[1].output = <<>> /\ result[1].exitCode = Nil

\* C26 (as claimed): the container specification passed to a run is not
\* mutated: after runManager returns, the caller's specification has the
\* environment list and the command it had before the call.
C26_ConfigNotMutated ==
    Returned => cfg = [Env |-> <<"AWS_ACCESS_KEY_ID">>, Cmd0 |-> <<"entrypoint">>]

\* C27: in the structured-config variant the copy-in directive of the
\* serialized configuration file comes after all caller-supplied directives,
\* so it is staged last and before start; if serializing the configuration or
\* writing the cache file fails, the variant returns that error without
\* invoking runManager and no engine call occurs.
C27_ConfigStagedLast ==
    caller.variant = "clusterConfig" =>
        /\ caller.runs = 0 => calls = <<>>
        /\ (pc = "variantReturned" /\ caller.runs = 0) =>
              /\ caller.ret[1].output = <<>> /\ caller.ret[1].exitCode = Nil
              /\ caller.ret[1].err \in {Some([text |-> <<"marshal">>, wrap |-> "stack"]),
                                        Some(Err(<<"write">>))}
        /\ caller.runs = 1 =>
              /\ caller.configAt = copyToPaths
              /\ \A k \in CallIdx("copyTo") :
                    /\ \A j \in CallIdx("start") : k < j
                    /\ calls[k].n = caller.configAt =>
                          /\ \A j \in CallIdx("copyTo") : j <= k
                          /\ {calls[j].n : j \in CallIdx("copyTo")} = 1..copyToPaths
              /\ Invoked("start") =>
                    \E k \in CallIdx("copyTo") : calls[k].n = caller.configAt /\ calls[k].ok

C27_Witness ==
    /\ pc = "variantReturned" /\ caller.variant = "clusterConfig" /\ caller.runs = 1
    /\ copyToPaths = 2 /\ caller.configAt = 2
    /\ Succeeded("start")
    /\ \E k \in CallIdx("copyTo") : calls[k].n = 2 /\ calls[k - 1].op = "copyTo"

\* C28: in runs without an interrupt ContainerRemove is the last engine call
\* of the run: nothing is called after it, it follows the final copy-out or
\* the failing step, and whenever attach had succeeded the attached stream is
\* closed before the container is removed.
C28_RemoveIsLast ==
    sigs = <<>> =>
        /\ \A k \in CallIdx("remove") : k = Len(calls)
        /\ \A k \in CallIdx("remove"), j \in CallIdx("close") : j < k
        /\ Invoked("remove") => (Succeeded("attach") => Invoked("close"))
        /\ (Returned /\ Succeeded("create")) =>
              /\ calls[Len(calls)] = Call("remove", 0, "ctl", TRUE)
              /\ Succeeded("attach") => calls[Len(calls) - 1].op = "close"

C28_Witness ==
    /\ sigs = <<>> /\ Returned /\ result[1].err = Nil
    /\ Len(calls) >= 4
    /\ calls[Len(calls)].op = "remove" /\ calls[Len(calls) - 1].op = "close"
    /\ calls[Len(calls) - 2] = Call("copyFrom", 2, "ctl", TRUE)

\* C29: hasAllEC2Tags returns true exactly when every query tag matches some
\* resource tag, where a query tag with a nil value matches as long as its key
\* is present among the resource's tags, a query tag with a value matches only
\* a resource tag with the same key and the same non-nil value, and a query
\* tag with a nil key matches nothing; with an empty query list every
\* resource matches.
C29_HasAllEC2Tags ==
    pc = "matched" =>
        /\ result[1] =
              \A q \in Range(queryTags) :
                  /\ q.Key # Nil
                  /\ \E r \in Range(allResourceTags) :
                        /\ r.Key = q.Key
                        /\ q.Value # Nil => r.Value = q.Value
        /\ queryTags = <<>> => result[1] = TRUE

C29_Witness ==
    /\ pc = "matched" /\ result = Some(TRUE)
    /\ Len(queryTags) = 2 /\ Len(allResourceTags) = 2
    /\ queryTags[1] = [Key |-> Some("a"), Value |-> Nil]
    /\ queryTags[2] = [Key |-> Some("b"), Value |-> Some("y")]
    /\ allResourceTags[1] = [Key |-> Some("b"), Value |-> Some("y")]
    /\ allResourceTags[2] = [Key |-> Some("a"), Value |-> Some("x")]

====
